---- MODULE Spec2Model ----
(***************************************************************************)
(* The category hierarchy of the backend: CategoryService                  *)
(* (src/src/services/category.service.ts) over the Category collection     *)
(* (schema in src/unnamed/part_010).  The store is the collection; every   *)
(* action is one service call run to completion.                           *)
(***************************************************************************)
EXTENDS Integers, Sequences, FiniteSets, TLC

\* Number of ObjectIds the store hands out (ids are never reused).
MaxNodes == 3
\* Values a create request body may carry for level and childrenCount.
MaxBodyLevel == 1
MaxBodyCount == 1
\* Longest ancestors array the model stores; a fixup that would write a
\* longer one is reported as not returning.
MaxAnc == MaxNodes + 1
\* Lowest childrenCount the model follows: -MaxDebt.
MaxDebt == 1

\* parentId: { type: ObjectId, default: null }
Null == 0

Ids == 1..MaxNodes

VARIABLES
    store,   \* the Category collection: id -> document, domain = existing ids
    nextId,  \* the next ObjectId the driver generates
    last,    \* the last service call: operation, arguments, how it ended
    pre,     \* the collection as it was when the last call started
    inactive, \* the ids of the stored documents with isActive = false
    reply,   \* the data the last call answered with, a sequence
    calls    \* the service calls that run one store operation at a time

vars == <<store, nextId, last, pre, inactive, reply, calls>>

Range(s) == {s[i] : i \in DOMAIN s}

\* Ids a request can name: every id handed out so far, stored or deleted.
Allocated == 1..(nextId - 1)

-----------------------------------------------------------------------------
\* The document store primitives the service uses.

Exists(st, id) == id \in DOMAIN st

\* Category.find({ parentId: id })
FindByParent(st, id) == {c \in DOMAIN st : st[c].parentId = id}

\* Category.find({ ancestors: id }): array containment
FindByAncestor(st, id) == {d \in DOMAIN st : id \in Range(st[d].ancestors)}

\* Category.findByIdAndUpdate(id, { $inc: { childrenCount: delta } }):
\* no validators run, a missing id is a no-op.
IncChildrenCount(st, id, delta) ==
    IF Exists(st, id)
    THEN [st EXCEPT ![id].childrenCount = @ + delta]
    ELSE st

\* Category.findByIdAndUpdate(id, { ancestors, level })
SetAncestors(st, id, anc, lvl) ==
    IF Exists(st, id)
    THEN [st EXCEPT ![id].ancestors = anc, ![id].level = lvl]
    ELSE st

\* pre('save'): path is the ancestors joined by '/', then '/' and the _id,
\* or the _id alone (the sequence of the ids joined).
preSavePath(anc, id) == Append(anc, id)

\* doc.save() of a loaded document whose parentId, ancestors and level were
\* assigned: only those paths and the path the hook derives are written.
SaveTreeFields(st, id, parentId, anc, lvl) ==
    IF Exists(st, id)
    THEN [st EXCEPT ![id].parentId = parentId,
                    ![id].ancestors = anc,
                    ![id].level = lvl,
                    ![id].path = preSavePath(anc, id)]
    ELSE st

\* Category.findByIdAndDelete(id)
DeleteById(st, id) == [j \in (DOMAIN st) \ {id} |-> st[j]]

\* new Category(doc).save(): the hook adds the path.
Insert(st, id, doc) ==
    LET saved == [f \in (DOMAIN doc) \cup {"path"} |->
                     IF f = "path"
                     THEN preSavePath(doc.ancestors, id)
                     ELSE doc[f]]
    IN  [j \in (DOMAIN st) \cup {id} |-> IF j = id THEN saved ELSE st[j]]

-----------------------------------------------------------------------------
\* createCategory(categoryData)

\* The request bodies: parentId is absent or any id handed out so far; the
\* schema fields ancestors, level and childrenCount are copied from the body
\* by new Category(categoryData) when it carries them.
Bodies ==
    [parentId      : Allocated \cup {Null},
     ancestors     : {<<>>} \cup {<<a>> : a \in Allocated},
     level         : 0..MaxBodyLevel,
     childrenCount : 0..MaxBodyCount]

\* A body with a name and, optionally, a parentId only.
PlainBodies ==
    {b \in Bodies : b.ancestors = <<>> /\ b.level = 0 /\ b.childrenCount = 0}

\* The document createCategory saves for a body.
NewCategory(st, body) ==
    IF body.parentId # Null /\ Exists(st, body.parentId)
    THEN [parentId      |-> body.parentId,
          ancestors     |-> Append(st[body.parentId].ancestors, body.parentId),
          level         |-> st[body.parentId].level + 1,
          childrenCount |-> body.childrenCount]
    ELSE [parentId      |-> body.parentId,
          ancestors     |-> body.ancestors,
          level         |-> body.level,
          childrenCount |-> body.childrenCount]

\* createCategory without the $inc of the parent's childrenCount.
createCategoryNoInc(st, id, body) == Insert(st, id, NewCategory(st, body))

createCategory(st, id, body) ==
    LET saved == Insert(st, id, NewCategory(st, body))
    IN  IF body.parentId # Null
        THEN IncChildrenCount(saved, body.parentId, 1)
        ELSE saved

-----------------------------------------------------------------------------
\* updateDescendants(categoryId, newAncestors, newLevel)
\*
\* The outcome is [st, ok].  Category.find({ ancestors: categoryId }) has no
\* sort: the server returns the matches in record order, the order in which
\* the documents were inserted, which is the order of their ids here.
\* ok = FALSE is a recursion that has not returned when the ancestors array
\* it is about to write passes MaxAnc.

First(todo) == CHOOSE d \in todo : \A e \in todo : d <= e

RECURSIVE updateDescendants(_, _, _, _)
RECURSIVE forEachDescendant(_, _, _, _, _)

updateDescendants(st, categoryId, newAncestors, newLevel) ==
    forEachDescendant([st |-> st, ok |-> TRUE],
                      FindByAncestor(st, categoryId),
                      categoryId, newAncestors, newLevel)

forEachDescendant(r, todo, categoryId, newAncestors, newLevel) ==
    IF todo = {} \/ ~r.ok
    THEN r
    ELSE IF Len(newAncestors) + 1 > MaxAnc
    THEN [st |-> r.st, ok |-> FALSE]
    ELSE LET descendant == First(todo)
             descendantAncestors == Append(newAncestors, categoryId)
             descendantLevel == newLevel + 1
         IN  forEachDescendant(
                 updateDescendants(
                     SetAncestors(r.st, descendant, descendantAncestors,
                                  descendantLevel),
                     descendant, descendantAncestors, descendantLevel),
                 todo \ {descendant}, categoryId, newAncestors, newLevel)

-----------------------------------------------------------------------------
\* moveCategory(categoryId, newParentId): the outcome [st, result] of a call.

moveCategory(st, categoryId, newParentId) ==
    IF ~Exists(st, categoryId)
    THEN [st |-> st, result |-> "NotFound"]
    ELSE
    LET oldParentId == st[categoryId].parentId
        st1 == IF oldParentId # Null
               THEN IncChildrenCount(st, oldParentId, -1)
               ELSE st
    IN  IF newParentId # Null /\ ~Exists(st1, newParentId)
        THEN [st |-> st1, result |-> "NewParentNotFound"]
        ELSE
        LET anc == IF newParentId # Null
                   THEN Append(st1[newParentId].ancestors, newParentId)
                   ELSE <<>>
            lvl == IF newParentId # Null
                   THEN st1[newParentId].level + 1
                   ELSE 0
            st2 == IF newParentId # Null
                   THEN IncChildrenCount(st1, newParentId, 1)
                   ELSE st1
            st3 == SaveTreeFields(st2, categoryId, newParentId, anc, lvl)
            r == updateDescendants(st3, categoryId, anc, lvl)
        IN  [st |-> r.st, result |-> IF r.ok THEN "ok" ELSE "diverged"]

-----------------------------------------------------------------------------
\* deleteCategory(categoryId)

\* The loop with "child.level = category.level" left out.
RECURSIVE reparentChildrenKeepLevel(_, _, _)
reparentChildrenKeepLevel(st, children, category) ==
    IF children = {}
    THEN st
    ELSE LET child == CHOOSE c \in children : TRUE
         IN  reparentChildrenKeepLevel(
                 SaveTreeFields(st, child, category.parentId,
                                category.ancestors, st[child].level),
                 children \ {child}, category)

RECURSIVE reparentChildren(_, _, _)
reparentChildren(st, children, category) ==
    IF children = {}
    THEN st
    ELSE LET child == CHOOSE c \in children : TRUE
         IN  reparentChildren(
                 SaveTreeFields(st, child, category.parentId,
                                category.ancestors, category.level),
                 children \ {child}, category)

\* deleteCategory copying the fields of the deleted node's parent, not of the
\* deleted node, onto the children.
deleteCategoryParentFields(st, categoryId) ==
    IF ~Exists(st, categoryId)
    THEN [st |-> st, result |-> "NotFound"]
    ELSE
    LET category == st[categoryId]
        source == IF Exists(st, category.parentId)
                  THEN [category EXCEPT
                            !.ancestors = st[category.parentId].ancestors,
                            !.level = st[category.parentId].level]
                  ELSE category
        st1 == reparentChildren(st, FindByParent(st, categoryId), source)
        st2 == IF category.parentId # Null
               THEN IncChildrenCount(st1, category.parentId, -1)
               ELSE st1
    IN  [st |-> DeleteById(st2, categoryId), result |-> "ok"]

deleteCategory(st, categoryId) ==
    IF ~Exists(st, categoryId)
    THEN [st |-> st, result |-> "NotFound"]
    ELSE
    LET category == st[categoryId]
        st1 == reparentChildren(st, FindByParent(st, categoryId), category)
        st2 == IF category.parentId # Null
               THEN IncChildrenCount(st1, category.parentId, -1)
               ELSE st1
    IN  [st |-> DeleteById(st2, categoryId), result |-> "ok"]

-----------------------------------------------------------------------------
\* The read operations.  A document is named after its id (names are distinct
\* and order is left at its default 0), so a sort by (order, name) is a sort
\* by id, and a query without a sort answers in record order, the order of
\* the ids.

\* cursor.sort(key): ascending by key, ties in record order.
RECURSIVE sort(_, _)
sort(docs, key) ==
    IF docs = {}
    THEN <<>>
    ELSE LET d == CHOOSE x \in docs : \A y \in docs :
                      key[x] < key[y] \/ (key[x] = key[y] /\ x <= y)
         IN  <<d>> \o sort(docs \ {d}, key)

byName(docs) == [d \in docs |-> d]
byLevel(st, docs) == [d \in docs |-> st[d].level]

\* Category.find({ parentId, isActive: true }).sort({ order: 1, name: 1 })
getChildren(st, off, categoryId) ==
    LET found == FindByParent(st, categoryId) \ off
    IN  sort(found, byName(found))

\* getAncestors without "isActive: true" in the filter.
getAncestorsAll(st, off, categoryId) ==
    IF ~Exists(st, categoryId)
    THEN <<>>
    ELSE LET found == {a \in DOMAIN st : a \in Range(st[categoryId].ancestors)}
         IN  sort(found, byLevel(st, found))

getAncestors(st, off, categoryId) ==
    IF ~Exists(st, categoryId)
    THEN <<>>
    ELSE LET found == {a \in DOMAIN st :
                          a \in Range(st[categoryId].ancestors)} \ off
         IN  sort(found, byLevel(st, found))

\* Category.find({ ancestors, isActive: true })
\*     .sort({ level: 1, order: 1, name: 1 })
getDescendants(st, off, categoryId) ==
    LET found == FindByAncestor(st, categoryId) \ off
    IN  sort(found, byLevel(st, found))

\* methods.getFullPath: the names of find({ _id: { $in: ancestors } }) in the
\* order the query answers, then the node's own name.
getFullPath(st, categoryId) ==
    LET found == {a \in DOMAIN st : a \in Range(st[categoryId].ancestors)}
    IN  sort(found, byName(found)) \o <<categoryId>>

\* getCategoryWithPath answering a missing id with the bare name.
getCategoryWithPathNoCheck(st, categoryId) ==
    IF ~Exists(st, categoryId)
    THEN [result |-> "ok", data |-> <<categoryId>>]
    ELSE [result |-> "ok", data |-> getFullPath(st, categoryId)]

\* getCategoryWithPath and its controller: null is answered with 404
\* 'Category not found'.
getCategoryWithPath(st, categoryId) ==
    IF ~Exists(st, categoryId)
    THEN [result |-> "NotFound", data |-> <<>>]
    ELSE [result |-> "ok", data |-> getFullPath(st, categoryId)]

\* buildTree(categories, parentId): the entries of the documents whose
\* parentId is parentId, in the order of categories, each with the tree
\* built below it.
RECURSIVE buildTree(_, _, _)
buildTree(categories, st, parentId) ==
    LET roots == SelectSeq(categories, LAMBDA c : st[c].parentId = parentId)
    IN  [i \in 1..Len(roots) |->
            [id |-> roots[i],
             children |-> buildTree(categories, st, roots[i])]]

\* statics.getTree: find({ isActive: true }).sort({ order: 1, name: 1 })
getTree(st, off) ==
    LET found == (DOMAIN st) \ off
    IN  buildTree(sort(found, byName(found)), st, Null)

-----------------------------------------------------------------------------
\* The service, one call at a time.

NoCall == [op |-> "none", id |-> Null, arg |-> Null, result |-> "ok"]

\* A call that answers with no data.
NoReply == <<>>

\* The calls that may be in progress at once: a first and a second.
Slots == {1, 2}

\* A document that has not been loaded.
NoDoc ==
    [parentId |-> Null, ancestors |-> <<>>, level |-> 0,
     childrenCount |-> 0, path |-> <<>>]

\* A call in progress: the operation and its arguments, the statement it
\* is at, the document and the values it holds in local variables, the
\* documents its loop still has to visit, the frames of updateDescendants
\* it is in, and the ids updateDescendants has written so far.
FreeCall ==
    [op |-> "none", pc |-> "free", id |-> Null, arg |-> Null,
     result |-> "ok", category |-> NoDoc, anc |-> <<>>, lvl |-> 0,
     todo |-> <<>>, stack |-> <<>>, writes |-> <<>>]

Init ==
    /\ store = <<>>
    /\ nextId = 1
    /\ last = NoCall
    /\ pre = <<>>
    /\ inactive = {}
    /\ reply = NoReply
    /\ calls = [slot \in Slots |-> FreeCall]

\* A call starts only when the one before it has returned.
Idle == last.result # "diverged"

Fits(st) ==
    \A n \in DOMAIN st :
        /\ Len(st[n].ancestors) <= MaxAnc
        /\ st[n].childrenCount >= -MaxDebt

\* A create whose body carries isActive (default true).
CreateAs(body, isActive) ==
    /\ Idle
    /\ nextId <= MaxNodes
    /\ Fits(createCategory(store, nextId, body))
    /\ store' = createCategory(store, nextId, body)
    /\ nextId' = nextId + 1
    /\ last' = [op |-> "create", id |-> nextId, arg |-> body.parentId,
                result |-> "ok"]
    /\ pre' = store
    /\ inactive' = IF isActive THEN inactive ELSE inactive \cup {nextId}
    /\ reply' = NoReply
    /\ UNCHANGED calls

Create(body) == CreateAs(body, TRUE)

Move(categoryId, newParentId) ==
    /\ Idle
    /\ LET r == moveCategory(store, categoryId, newParentId)
       IN  /\ Fits(r.st)
           /\ store' = r.st
           /\ last' = [op |-> "move", id |-> categoryId, arg |-> newParentId,
                       result |-> r.result]
    /\ pre' = store
    /\ reply' = NoReply
    /\ UNCHANGED <<nextId, inactive, calls>>

Delete(categoryId) ==
    /\ Idle
    /\ LET r == deleteCategory(store, categoryId)
       IN  /\ Fits(r.st)
           /\ store' = r.st
           /\ last' = [op |-> "delete", id |-> categoryId, arg |-> Null,
                       result |-> r.result]
           /\ inactive' = inactive \cap DOMAIN r.st
    /\ pre' = store
    /\ reply' = NoReply
    /\ UNCHANGED <<nextId, calls>>

\* A read: the collection is left as it is.
Read(op, categoryId, result, data) ==
    /\ Idle
    /\ last' = [op |-> op, id |-> categoryId, arg |-> Null, result |-> result]
    /\ reply' = data
    /\ pre' = store
    /\ UNCHANGED <<store, nextId, inactive, calls>>

GetTree == Read("getTree", Null, "ok", getTree(store, inactive))

GetChildren(categoryId) ==
    Read("getChildren", categoryId, "ok",
         getChildren(store, inactive, categoryId))

\* getAncestors answering a missing id with NotFound.
GetAncestorsOrNotFound(categoryId) ==
    IF Exists(store, categoryId)
    THEN Read("getAncestors", categoryId, "ok",
              getAncestors(store, inactive, categoryId))
    ELSE Read("getAncestors", categoryId, "NotFound", NoReply)

GetAncestors(categoryId) ==
    Read("getAncestors", categoryId, "ok",
         getAncestors(store, inactive, categoryId))

GetDescendants(categoryId) ==
    Read("getDescendants", categoryId, "ok",
         getDescendants(store, inactive, categoryId))

GetCategoryWithPath(categoryId) ==
    LET r == getCategoryWithPath(store, categoryId)
    IN  Read("getCategoryWithPath", categoryId, r.result, r.data)

Next ==
    \/ \E body \in Bodies : Create(body)
    \/ \E id \in Allocated : \E p \in Allocated \cup {Null} : Move(id, p)
    \/ \E id \in Allocated : Delete(id)

Spec == Init /\ [][Next]_vars

\* The same service with create requests that carry a name and a parentId only.
NextPlain ==
    \/ \E body \in PlainBodies : Create(body)
    \/ \E id \in Allocated : \E p \in Allocated \cup {Null} : Move(id, p)
    \/ \E id \in Allocated : Delete(id)

SpecPlain == Init /\ [][NextPlain]_vars

\* The service with its reads; create requests carry a name and, optionally,
\* a parentId and isActive.
NextRead ==
    \/ \E body \in PlainBodies : \E isActive \in BOOLEAN :
           CreateAs(body, isActive)
    \/ \E id \in Allocated : \E p \in Allocated \cup {Null} : Move(id, p)
    \/ \E id \in Allocated : Delete(id)
    \/ GetTree
    \/ \E id \in Ids : GetChildren(id)
    \/ \E id \in Ids : GetAncestors(id)
    \/ \E id \in Ids : GetDescendants(id)
    \/ \E id \in Ids : GetCategoryWithPath(id)

SpecRead == Init /\ [][NextRead]_vars

-----------------------------------------------------------------------------
\* Vocabulary of the properties.

\* d reaches n by following parentId one or more times (at most fuel links).
RECURSIVE ReachesUp(_, _, _, _)
ReachesUp(st, d, n, fuel) ==
    IF fuel = 0 \/ d \notin DOMAIN st
    THEN FALSE
    ELSE LET p == st[d].parentId
         IN  p = n \/ (p # Null /\ ReachesUp(st, p, n, fuel - 1))

IsDescendant(st, d, n) == ReachesUp(st, d, n, Cardinality(DOMAIN st))

Subtree(st, n) == {d \in DOMAIN st : IsDescendant(st, d, n)}

\* Invariants 1, 2 and 5 of the data model at one node.
NodeConsistent(st, n) ==
    IF st[n].parentId = Null
    THEN st[n].ancestors = <<>> /\ st[n].level = 0
    ELSE /\ st[n].parentId \in DOMAIN st
         /\ st[n].ancestors =
                Append(st[st[n].parentId].ancestors, st[n].parentId)
         /\ st[n].level = st[st[n].parentId].level + 1

\* An acyclic forest that satisfies the invariants of the data model.
WellFormed(st) ==
    \A n \in DOMAIN st :
        /\ NodeConsistent(st, n)
        /\ ~IsDescendant(st, n, n)
        /\ st[n].childrenCount = Cardinality(FindByParent(st, n))

Deleted == last.op = "delete" /\ last.result = "ok"
Moved == last.op = "move" /\ last.result = "ok"

\* The nodes deleteCategory(last.id) found as direct children.
FormerChildren == FindByParent(pre, last.id) \ {last.id}

-----------------------------------------------------------------------------
\* C1: after any sequence of completed create/move/delete calls, a node with
\* parent P has ancestors = P.ancestors ++ [P.id], and a node without a
\* parent has no ancestors.
C1_AncestorsFromParent ==
    Idle =>
        \A n \in DOMAIN store :
            /\ store[n].parentId = Null => store[n].ancestors = <<>>
            /\ store[n].parentId \in DOMAIN store =>
                   store[n].ancestors =
                       Append(store[store[n].parentId].ancestors,
                              store[n].parentId)

\* C2: after any sequence of completed calls, childrenCount(P) is the number
\* of nodes whose parentId is P.
C2_ChildrenCountExact ==
    Idle =>
        \A p \in DOMAIN store :
            store[p].childrenCount = Cardinality(FindByParent(store, p))

\* C3: after any sequence of completed calls, level = length of ancestors at
\* every node.
C3_LevelIsDepth ==
    Idle =>
        \A n \in DOMAIN store : store[n].level = Len(store[n].ancestors)

\* C4: moveCategory(N, D) with D a descendant of N fails with an error and
\* leaves the store as it was.
C4_CyclicMoveRejected ==
    (last.op = "move" /\ IsDescendant(pre, last.arg, last.id)) =>
        /\ last.result \notin {"ok", "diverged"}
        /\ store = pre

\* C5: in every state reached by completed calls the forest is acyclic: no
\* node reaches itself by following parentId, and no node's ancestors hold
\* the node's own id.
C5_Acyclic ==
    Idle =>
        \A n \in DOMAIN store :
            /\ ~IsDescendant(store, n, n)
            /\ n \notin Range(store[n].ancestors)

\* C6: when moveCategory(N, P') completes on a well-formed forest, P' outside
\* N's subtree, every node D of N's subtree keeps its parent and has
\* ancestors = parent(D).ancestors ++ [parent(D).id] and
\* level = parent(D).level + 1.
C6_SubtreeConsistentAfterMove ==
    (/\ Moved
     /\ WellFormed(pre)
     /\ last.arg # last.id
     /\ ~IsDescendant(pre, last.arg, last.id)) =>
        \A d \in Subtree(pre, last.id) :
            /\ d \in DOMAIN store
            /\ store[d].parentId = pre[d].parentId
            /\ NodeConsistent(store, d)

\* C7: after deleteCategory(X), every former direct child of X has X's former
\* parentId, ancestors and level, and X is no longer stored.
C7_DeleteReparentsChildren ==
    Deleted =>
        /\ last.id \notin DOMAIN store
        /\ \A c \in FormerChildren :
              /\ c \in DOMAIN store
              /\ store[c].parentId = pre[last.id].parentId
              /\ store[c].ancestors = pre[last.id].ancestors
              /\ store[c].level = pre[last.id].level

\* C7 witness: a delete of a node that had a direct child has completed.
C7_Witness == Deleted /\ FormerChildren # {}

\* The parent P of the node deleteCategory removed, when P was stored.
DeletedHadParent ==
    /\ Deleted
    /\ pre[last.id].parentId \in DOMAIN pre

\* C8 as stated: after deleteCategory(X), X with parent P, every former child
\* C of X has parentId = P.id, ancestors = P.ancestors and level = P.level.
C8_ChildTakesParentFields ==
    DeletedHadParent =>
        LET P == pre[last.id].parentId
        IN  \A c \in FormerChildren :
                /\ store[c].parentId = P
                /\ store[c].ancestors = pre[P].ancestors
                /\ store[c].level = pre[P].level

\* C8 as amended: after deleteCategory(X), X with parent P, every former
\* child C of X has parentId = P.id and X's former ancestors and level;
\* these are P.ancestors ++ [P.id] and P.level + 1 whenever X itself had
\* ancestors = P.ancestors ++ [P.id] and level = P.level + 1.
C8_ChildTakesDeletedNodeFields ==
    DeletedHadParent =>
        LET X == pre[last.id]
            P == X.parentId
        IN  \A c \in FormerChildren :
                /\ store[c].parentId = P
                /\ store[c].ancestors = X.ancestors
                /\ store[c].level = X.level
                /\ NodeConsistent(pre, last.id) =>
                       /\ store[c].ancestors = Append(pre[P].ancestors, P)
                       /\ store[c].level = pre[P].level + 1

\* C8 witness: a consistent node with a stored parent and a direct child has
\* been deleted.
C8_Witness ==
    /\ DeletedHadParent
    /\ FormerChildren # {}
    /\ NodeConsistent(pre, last.id)

\* C9: deleteCategory(X), X with parent P and k direct children, changes
\* P.childrenCount by exactly k - 1.
C9_ParentCountDelta ==
    (DeletedHadParent /\ pre[last.id].parentId \in DOMAIN store) =>
        LET P == pre[last.id].parentId
        IN  store[P].childrenCount =
                pre[P].childrenCount + Cardinality(FormerChildren) - 1

\* C10: after deleteCategory(X) no stored node keeps X.id in its ancestors.
C10_NoStaleAncestorAfterDelete ==
    Deleted =>
        \A n \in DOMAIN store : last.id \notin Range(store[n].ancestors)

-----------------------------------------------------------------------------
Created == last.op = "create" /\ last.result = "ok"

\* C11: createCategory with a parentId that resolves to no stored node fails
\* with NotFound and inserts nothing.
C11_CreateUnknownParentRejected ==
    (last.op = "create" /\ last.arg # Null /\ last.arg \notin DOMAIN pre) =>
        /\ last.result = "NotFound"
        /\ store = pre

\* C12: createCategory under a stored parent P saves the new node with
\* ancestors = P.ancestors ++ [P.id] and level = P.level + 1, adds exactly 1
\* to P.childrenCount and leaves every other childrenCount alone.
C12_CreateUnderParent ==
    (Created /\ last.arg \in DOMAIN pre) =>
        LET P == last.arg
        IN  /\ last.id \in DOMAIN store
            /\ store[last.id].parentId = P
            /\ store[last.id].ancestors = Append(pre[P].ancestors, P)
            /\ store[last.id].level = pre[P].level + 1
            /\ store[P].childrenCount = pre[P].childrenCount + 1
            /\ \A n \in (DOMAIN pre) \ {P} :
                   store[n].childrenCount = pre[n].childrenCount

\* C12 witness: a create under a stored parent has completed.
C12_Witness == Created /\ last.arg \in DOMAIN pre

\* C13: in every state reached by completed calls a node without a parentId
\* has no ancestors and level 0.
C13_RootsHaveNoAncestors ==
    Idle =>
        \A n \in DOMAIN store :
            store[n].parentId = Null =>
                store[n].ancestors = <<>> /\ store[n].level = 0

\* C14: moving a node N whose descendants are all direct children from its
\* parent P to the root gives N level 0 and no ancestors, every direct child
\* level 1 and ancestors [N.id], and takes exactly 1 off P.childrenCount.
C14_MoveToRoot ==
    (/\ Moved
     /\ last.arg = Null
     /\ pre[last.id].parentId \in (DOMAIN pre) \ {last.id}
     /\ \A c \in FindByParent(pre, last.id) : FindByParent(pre, c) = {}) =>
        LET N == last.id
            P == pre[N].parentId
        IN  /\ store[N].level = 0
            /\ store[N].ancestors = <<>>
            /\ \A c \in FindByParent(pre, N) :
                   store[c].level = 1 /\ store[c].ancestors = <<N>>
            /\ store[P].childrenCount = pre[P].childrenCount - 1

-----------------------------------------------------------------------------
\* The reads.

Answered(op) == last.op = op /\ last.result = "ok"

\* The ids of a forest built by buildTree, entry by entry, each followed by
\* the ids below it.
RECURSIVE TreeIds(_)
TreeIds(tree) ==
    IF tree = <<>>
    THEN <<>>
    ELSE <<Head(tree).id>> \o TreeIds(Head(tree).children)
                           \o TreeIds(Tail(tree))

Occurrences(seq, x) == Cardinality({i \in DOMAIN seq : seq[i] = x})

\* C15: getDescendants(R) of a stored node R answers exactly the active
\* nodes, other than R, from which following parentId repeatedly reaches R.
C15_DescendantsFollowParent ==
    (Answered("getDescendants") /\ last.id \in DOMAIN store) =>
        Range(reply) =
            {d \in (DOMAIN store) \ (inactive \cup {last.id}) :
                IsDescendant(store, d, last.id)}

\* C16: the forest getTree answers holds every active stored node exactly
\* once, whether its parent is active or not.
C16_TreeHoldsEveryActiveNode ==
    Answered("getTree") =>
        \A n \in (DOMAIN store) \ inactive :
            Occurrences(TreeIds(reply), n) = 1

\* C17: for a node N with two or more ancestors, all of them stored,
\* getCategoryWithPath(N) answers a fullPath that lists the names of
\* N.ancestors in the order of N.ancestors and then N's own name.
C17_PathInAncestorsOrder ==
    (/\ Answered("getCategoryWithPath")
     /\ Len(store[last.id].ancestors) >= 2
     /\ Range(store[last.id].ancestors) \subseteq DOMAIN store) =>
        reply = Append(store[last.id].ancestors, last.id)

\* C18 as stated: getAncestors(N) of a stored node N answers exactly the
\* stored nodes whose ids are in N.ancestors, active or not, by level
\* ascending.
C18_AncestorsActiveOrNot ==
    (Answered("getAncestors") /\ last.id \in DOMAIN store) =>
        /\ Range(reply) = Range(store[last.id].ancestors) \cap DOMAIN store
        /\ \A i, j \in DOMAIN reply :
               i < j => store[reply[i]].level <= store[reply[j]].level

\* C18: getAncestors(N) of a stored node N answers exactly the active stored
\* nodes whose ids are in N.ancestors, each once, by level ascending.
C18_ActiveAncestorsByLevel ==
    (Answered("getAncestors") /\ last.id \in DOMAIN store) =>
        /\ Range(reply) =
               (Range(store[last.id].ancestors) \cap DOMAIN store) \ inactive
        /\ Len(reply) = Cardinality(Range(reply))
        /\ \A i, j \in DOMAIN reply :
               i < j => store[reply[i]].level <= store[reply[j]].level

\* C18 witness: getAncestors has answered for a node with an active and an
\* inactive stored ancestor.
C18_Witness ==
    /\ Answered("getAncestors") /\ last.id \in DOMAIN store
    /\ reply # <<>>
    /\ Range(store[last.id].ancestors) \cap DOMAIN store \cap inactive # {}

UnknownId == last.id # Null /\ last.id \notin DOMAIN store

\* C19 as stated: for an id that resolves to no stored node getAncestors
\* fails with NotFound, and getChildren and getDescendants answer the empty
\* sequence.
C19_OnlyGetAncestorsFails ==
    UnknownId =>
        /\ last.op = "getAncestors" => last.result = "NotFound"
        /\ last.op \in {"getChildren", "getDescendants"} =>
               last.result = "ok" /\ reply = <<>>

\* C19: for an id that resolves to no stored node none of the three reads
\* fails: getAncestors answers the empty sequence, getChildren the active
\* nodes whose parentId is the id and getDescendants the active nodes whose
\* ancestors hold the id.
C19_NoReadFailsOnUnknownId ==
    UnknownId =>
        /\ last.op \in {"getAncestors", "getChildren", "getDescendants"} =>
               last.result = "ok"
        /\ last.op = "getAncestors" => reply = <<>>
        /\ last.op = "getChildren" =>
               Range(reply) = FindByParent(store, last.id) \ inactive
        /\ last.op = "getDescendants" =>
               Range(reply) = FindByAncestor(store, last.id) \ inactive

\* C19 witness: getAncestors has answered for the id of a deleted node.
C19_Witness ==
    /\ last.op = "getAncestors" /\ UnknownId
    /\ last.id \in Allocated

\* C20: getCategoryWithPath of an id that resolves to no stored node ends
\* with NotFound and answers no data.
C20_PathOfUnknownIdNotFound ==
    (last.op = "getCategoryWithPath" /\ UnknownId) =>
        last.result = "NotFound" /\ reply = NoReply

\* C20 witness: getCategoryWithPath was called with the id of a deleted node.
C20_Witness ==
    /\ last.op = "getCategoryWithPath" /\ UnknownId
    /\ last.id \in Allocated

-----------------------------------------------------------------------------
\* A move and the move back.

\* moveCategory(categoryId, newParentId) and, once it has returned,
\* moveCategory(categoryId, the parent the node had), nothing in between.
moveAndBack(st, categoryId, newParentId) ==
    LET there == moveCategory(st, categoryId, newParentId)
    IN  IF there.result # "ok"
        THEN there
        ELSE moveCategory(there.st, categoryId, st[categoryId].parentId)

MoveAndBack(categoryId, newParentId) ==
    /\ Idle
    /\ LET r == moveAndBack(store, categoryId, newParentId)
       IN  /\ Fits(r.st)
           /\ store' = r.st
           /\ last' = [op |-> "moveAndBack", id |-> categoryId,
                       arg |-> newParentId, result |-> r.result]
    /\ pre' = store
    /\ reply' = NoReply
    /\ UNCHANGED <<nextId, inactive, calls>>

NextRoundTrip ==
    \/ \E body \in PlainBodies : Create(body)
    \/ \E id \in Allocated : \E p \in Allocated \cup {Null} : Move(id, p)
    \/ \E id \in Allocated : Delete(id)
    \/ \E id \in Allocated : \E p \in Allocated \cup {Null} :
           MoveAndBack(id, p)

SpecRoundTrip == Init /\ [][NextRoundTrip]_vars

\* The round trip of C21 has completed: N went under a stored node P outside
\* its subtree and back under its stored (or absent) parent P0.
RoundTripDone ==
    /\ last.op = "moveAndBack" /\ last.result = "ok"
    /\ last.arg \in (DOMAIN pre) \ ({last.id} \cup Subtree(pre, last.id))
    /\ pre[last.id].parentId \in (DOMAIN pre) \cup {Null}

\* C21: moveCategory(N, P) followed by moveCategory(N, P0), P0 the parent N
\* had, restores N.ancestors and N.level.
C21_RoundTripRestores ==
    RoundTripDone =>
        /\ store[last.id].ancestors = pre[last.id].ancestors
        /\ store[last.id].level = pre[last.id].level

\* C22: moveCategory(N, N) of a stored node N is rejected with an error and
\* leaves the store as it was.
C22_MoveUnderItselfRejected ==
    (last.op = "move" /\ last.arg = last.id /\ last.id \in DOMAIN pre) =>
        /\ last.result \notin {"ok", "diverged"}
        /\ store = pre

\* C26: a moveCategory that fails because the new parent resolves to no
\* stored node leaves the store as it was.
C26_FailedMoveChangesNothing ==
    (last.op = "move" /\ last.result = "NewParentNotFound") => store = pre

\* C27: after completed calls no stored node has a negative childrenCount.
C27_ChildrenCountNotNegative ==
    Idle => \A n \in DOMAIN store : store[n].childrenCount >= 0

\* C25: after completed calls the stored path of every node is the ids of
\* its ancestors followed by its own id.
C25_PathFollowsAncestors ==
    Idle => \A n \in DOMAIN store :
                store[n].path = Append(store[n].ancestors, n)

-----------------------------------------------------------------------------
\* The service calls one store operation at a time.  A step of a call is one
\* awaited read or write of the collection together with the statements
\* that follow it up to the next one; the outcome of a step is the
\* collection and the call after it, with ok = FALSE when the step is not
\* taken.

\* The documents a find() without a sort answers, in record order.
recordOrder(docs) == sort(docs, [d \in docs |-> 0])

Done(c, result) == [c EXCEPT !.pc = "done", !.result = result]

Outcome(st, c) == [st |-> st, call |-> c, ok |-> TRUE]

\* updateDescendants returns from every frame whose loop has no document
\* left; with no frame left moveCategory returns.
RECURSIVE returnFrames(_)
returnFrames(c) ==
    IF c.stack = <<>>
    THEN Done(c, "ok")
    ELSE IF c.stack[Len(c.stack)].todo = <<>>
    THEN returnFrames([c EXCEPT !.stack = SubSeq(@, 1, Len(@) - 1)])
    ELSE [c EXCEPT !.pc = "updateDescendant"]

\* moveCategory after the old parent's count: "if (newParentId) ... else".
moveToNewParent(c) ==
    IF c.arg # Null
    THEN [c EXCEPT !.pc = "findNewParent"]
    ELSE [c EXCEPT !.pc = "save", !.anc = <<>>, !.lvl = 0]

\* One step of moveCategory(c.id, c.arg).
moveStep(st, c) ==
    CASE c.pc = "findCategory" ->
            IF ~Exists(st, c.id)
            THEN Outcome(st, Done(c, "NotFound"))
            ELSE LET loaded == [c EXCEPT !.category = st[c.id]]
                 IN  IF loaded.category.parentId # Null
                     THEN Outcome(st, [loaded EXCEPT !.pc = "decOldParent"])
                     ELSE Outcome(st, moveToNewParent(loaded))
      [] c.pc = "decOldParent" ->
            Outcome(IncChildrenCount(st, c.category.parentId, -1),
                    moveToNewParent(c))
      [] c.pc = "findNewParent" ->
            IF ~Exists(st, c.arg)
            THEN Outcome(st, Done(c, "NewParentNotFound"))
            ELSE Outcome(st, [c EXCEPT
                                 !.pc = "incNewParent",
                                 !.anc = Append(st[c.arg].ancestors, c.arg),
                                 !.lvl = st[c.arg].level + 1])
      [] c.pc = "incNewParent" ->
            Outcome(IncChildrenCount(st, c.arg, 1), [c EXCEPT !.pc = "save"])
      [] c.pc = "save" ->
            IF ~Exists(st, c.id)
            THEN Outcome(st, Done(c, "SaveFailed"))
            ELSE Outcome(SaveTreeFields(st, c.id, c.arg, c.anc, c.lvl),
                         [c EXCEPT
                             !.pc = "findDescendants",
                             !.stack = <<[categoryId |-> c.id,
                                          newAncestors |-> c.anc,
                                          newLevel |-> c.lvl,
                                          todo |-> <<>>]>>])
      [] c.pc = "findDescendants" ->
            LET top == Len(c.stack)
                descendants ==
                    recordOrder(FindByAncestor(st, c.stack[top].categoryId))
            IN  Outcome(st, returnFrames(
                                [c EXCEPT !.stack[top].todo = descendants]))
      [] c.pc = "updateDescendant" ->
            LET top == Len(c.stack)
                frame == c.stack[top]
                descendant == Head(frame.todo)
                descendantAncestors ==
                    Append(frame.newAncestors, frame.categoryId)
                descendantLevel == frame.newLevel + 1
            IN  [st |-> SetAncestors(st, descendant, descendantAncestors,
                                     descendantLevel),
                 call |-> [c EXCEPT
                              !.pc = "findDescendants",
                              !.writes = Append(@, descendant),
                              !.stack =
                                  Append([@ EXCEPT ![top].todo = Tail(@)],
                                         [categoryId |-> descendant,
                                          newAncestors |-> descendantAncestors,
                                          newLevel |-> descendantLevel,
                                          todo |-> <<>>])],
                 ok |-> Len(descendantAncestors) <= MaxAnc]
      [] OTHER -> [st |-> st, call |-> c, ok |-> FALSE]

\* createCategory with the $inc of the parent's childrenCount as a write of
\* the count the call read from the parent, plus one.
createStepStaleCount(st, c) ==
    CASE c.pc = "findParent" ->
            IF Exists(st, c.arg)
            THEN Outcome(st, [c EXCEPT
                                 !.pc = "save",
                                 !.category = st[c.arg],
                                 !.anc = Append(st[c.arg].ancestors, c.arg),
                                 !.lvl = st[c.arg].level + 1])
            ELSE Outcome(st, [c EXCEPT !.pc = "save"])
      [] c.pc = "save" ->
            Outcome(Insert(st, c.id,
                           [parentId |-> c.arg, ancestors |-> c.anc,
                            level |-> c.lvl, childrenCount |-> 0]),
                    IF c.arg # Null
                    THEN [c EXCEPT !.pc = "incParent"]
                    ELSE Done(c, "ok"))
      [] c.pc = "incParent" ->
            Outcome(IF Exists(st, c.arg)
                    THEN [st EXCEPT ![c.arg].childrenCount =
                                        c.category.childrenCount + 1]
                    ELSE st,
                    Done(c, "ok"))
      [] OTHER -> [st |-> st, call |-> c, ok |-> FALSE]

\* One step of createCategory({ name, parentId: c.arg }); c.id is the _id
\* new Category() gave the document.
createStep(st, c) ==
    CASE c.pc = "findParent" ->
            IF Exists(st, c.arg)
            THEN Outcome(st, [c EXCEPT
                                 !.pc = "save",
                                 !.category = st[c.arg],
                                 !.anc = Append(st[c.arg].ancestors, c.arg),
                                 !.lvl = st[c.arg].level + 1])
            ELSE Outcome(st, [c EXCEPT !.pc = "save"])
      [] c.pc = "save" ->
            Outcome(Insert(st, c.id,
                           [parentId |-> c.arg, ancestors |-> c.anc,
                            level |-> c.lvl, childrenCount |-> 0]),
                    IF c.arg # Null
                    THEN [c EXCEPT !.pc = "incParent"]
                    ELSE Done(c, "ok"))
      [] c.pc = "incParent" ->
            Outcome(IncChildrenCount(st, c.arg, 1), Done(c, "ok"))
      [] OTHER -> [st |-> st, call |-> c, ok |-> FALSE]

\* deleteCategory after the loop over the children.
deleteAfterChildren(c) ==
    IF c.category.parentId # Null
    THEN [c EXCEPT !.pc = "decParent"]
    ELSE [c EXCEPT !.pc = "delete"]

\* One step of deleteCategory(c.id).
deleteStep(st, c) ==
    CASE c.pc = "findCategory" ->
            IF ~Exists(st, c.id)
            THEN Outcome(st, Done(c, "NotFound"))
            ELSE Outcome(st, [c EXCEPT !.pc = "findChildren",
                                       !.category = st[c.id]])
      [] c.pc = "findChildren" ->
            LET children == recordOrder(FindByParent(st, c.id))
            IN  Outcome(st, IF children = <<>>
                            THEN deleteAfterChildren(c)
                            ELSE [c EXCEPT !.pc = "saveChild",
                                           !.todo = children])
      [] c.pc = "saveChild" ->
            LET child == Head(c.todo)
            IN  IF ~Exists(st, child)
                THEN Outcome(st, Done(c, "SaveFailed"))
                ELSE Outcome(SaveTreeFields(st, child, c.category.parentId,
                                            c.category.ancestors,
                                            c.category.level),
                             IF Tail(c.todo) = <<>>
                             THEN deleteAfterChildren(
                                      [c EXCEPT !.todo = <<>>])
                             ELSE [c EXCEPT !.todo = Tail(@)])
      [] c.pc = "decParent" ->
            Outcome(IncChildrenCount(st, c.category.parentId, -1),
                    [c EXCEPT !.pc = "delete"])
      [] c.pc = "delete" ->
            Outcome(DeleteById(st, c.id), Done(c, "ok"))
      [] OTHER -> [st |-> st, call |-> c, ok |-> FALSE]

\* No call has started yet: the collection is being filled.
NoCallYet == \A slot \in Slots : calls[slot].op = "none"

\* The calls start one after the other, each slot once.
CanStart(slot) ==
    /\ Idle
    /\ calls[slot].op = "none"
    /\ \A other \in Slots : other < slot => calls[other].op # "none"

Start(slot, c) ==
    /\ CanStart(slot)
    /\ calls' = [calls EXCEPT ![slot] = c]
    /\ pre' = IF NoCallYet THEN store ELSE pre
    /\ UNCHANGED <<store, last, inactive, reply>>

StartMove(slot, categoryId, newParentId) ==
    /\ Start(slot, [FreeCall EXCEPT !.op = "move", !.pc = "findCategory",
                                    !.id = categoryId, !.arg = newParentId])
    /\ UNCHANGED nextId

StartDelete(slot, categoryId) ==
    /\ Start(slot, [FreeCall EXCEPT !.op = "delete", !.pc = "findCategory",
                                    !.id = categoryId])
    /\ UNCHANGED nextId

StartCreate(slot, body) ==
    /\ nextId <= MaxNodes
    /\ Start(slot, [FreeCall EXCEPT
                       !.op = "create",
                       !.pc = IF body.parentId # Null
                              THEN "findParent" ELSE "save",
                       !.id = nextId, !.arg = body.parentId])
    /\ nextId' = nextId + 1

Step(slot, r) ==
    /\ r.ok
    /\ Fits(r.st)
    /\ store' = r.st
    /\ calls' = [calls EXCEPT ![slot] = r.call]
    /\ UNCHANGED <<nextId, last, pre, inactive, reply>>

StepMove(slot) ==
    /\ calls[slot].op = "move"
    /\ Step(slot, moveStep(store, calls[slot]))

StepCreate(slot) ==
    /\ calls[slot].op = "create"
    /\ Step(slot, createStep(store, calls[slot]))

StepDelete(slot) ==
    /\ calls[slot].op = "delete"
    /\ Step(slot, deleteStep(store, calls[slot]))

\* The collection is filled by completed creates.
Fill(body) == NoCallYet /\ Create(body)

\* One moveCategory, step by step, on a collection filled by creates.
NextFixup ==
    \/ \E body \in PlainBodies : Fill(body)
    \/ \E id \in Allocated : \E p \in Allocated \cup {Null} :
           StartMove(1, id, p)
    \/ StepMove(1)

SpecFixup == Init /\ [][NextFixup]_vars

\* The same, with a call that can take a step taking it.
SpecFixupFair == SpecFixup /\ WF_vars(StepMove(1))

\* Two calls whose steps interleave, on a collection filled by creates.
NextConcurrent ==
    \/ \E body \in PlainBodies : Fill(body)
    \/ \E slot \in Slots : \E id \in Allocated :
           \E p \in Allocated \cup {Null} : StartMove(slot, id, p)
    \/ \E slot \in Slots : \E id \in Allocated : StartDelete(slot, id)
    \/ \E slot \in Slots : \E body \in PlainBodies : StartCreate(slot, body)
    \/ \E slot \in Slots : StepMove(slot)
    \/ \E slot \in Slots : StepCreate(slot)
    \/ \E slot \in Slots : StepDelete(slot)

SpecConcurrent == Init /\ [][NextConcurrent]_vars

AllDone == \A slot \in Slots : calls[slot].pc = "done"

\* A moveCategory(N, P') of a stored node N, P' absent or a stored node, is
\* in progress or has returned.
MoveCalled ==
    /\ calls[1].op = "move"
    /\ calls[1].id \in DOMAIN pre
    /\ calls[1].arg \in (DOMAIN pre) \cup {Null}

C24_FixupWritesOnce ==
    (MoveCalled /\ calls[1].pc = "done" /\ calls[1].result = "ok"
                /\ WellFormed(pre)) =>
        \A d \in Subtree(pre, calls[1].id) :
            Occurrences(calls[1].writes, d) = 1

\* Both calls have returned without an error.
BothReturned == AllDone /\ \A slot \in Slots : calls[slot].result = "ok"

\* C28 case: two moveCategory calls on the same stored node with different
\* new parents, both stored nodes outside the node's subtree.
TwoMovesOfOneNode ==
    /\ \A slot \in Slots : calls[slot].op = "move"
    /\ calls[1].id = calls[2].id
    /\ calls[1].id \in DOMAIN pre
    /\ calls[1].arg # calls[2].arg
    /\ \A slot \in Slots :
           calls[slot].arg \in
               (DOMAIN pre) \ ({calls[1].id} \cup Subtree(pre, calls[1].id))

\* C28: once two interleaved moveCategory calls on the same node have both
\* returned, childrenCount of every node is the number of nodes whose
\* parentId is that node.
C28_CountsAfterTwoMoves ==
    (TwoMovesOfOneNode /\ BothReturned) =>
        \A n \in DOMAIN store :
            store[n].childrenCount = Cardinality(FindByParent(store, n))

\* C29 case: slot creates a child under the stored node P that the other
\* call deletes, and has read P.
CreateUnderDeleted(slot, other) ==
    /\ calls[slot].op = "create" /\ calls[other].op = "delete"
    /\ calls[slot].arg = calls[other].id
    /\ calls[slot].arg \in DOMAIN pre
    /\ calls[slot].category # NoDoc

\* C29: once a createCategory under P and a deleteCategory(P) that
\* interleave have both returned, the new child's parentId is absent or a
\* stored node and its ancestors are stored nodes.
C29_NewChildNotOrphaned ==
    \A slot, other \in Slots :
        (CreateUnderDeleted(slot, other) /\ BothReturned) =>
            LET child == calls[slot].id
            IN  /\ child \in DOMAIN store
                /\ store[child].parentId \in (DOMAIN store) \cup {Null}
                /\ Range(store[child].ancestors) \subseteq DOMAIN store

\* C30 case: two createCategory calls under the same stored node.
TwoCreatesUnderOneParent ==
    /\ \A slot \in Slots : calls[slot].op = "create"
    /\ calls[1].arg = calls[2].arg
    /\ calls[1].arg \in DOMAIN pre

\* C30: once two interleaved createCategory calls under the same stored
\* node P have both returned, P.childrenCount has grown by exactly 2 and
\* both children have ancestors P.ancestors ++ [P].
C30_NoLostCount ==
    (TwoCreatesUnderOneParent /\ AllDone) =>
        LET P == calls[1].arg
        IN  /\ store[P].childrenCount = pre[P].childrenCount + 2
            /\ \A slot \in Slots :
                   /\ calls[slot].result = "ok"
                   /\ calls[slot].id \in DOMAIN store
                   /\ store[calls[slot].id].parentId = P
                   /\ store[calls[slot].id].ancestors =
                          Append(pre[P].ancestors, P)

\* C30 witness: two createCategory calls under the same stored node have
\* both returned.
C30_Witness == TwoCreatesUnderOneParent /\ AllDone
====
